---- MODULE Spec2Model ----
(***************************************************************************)
(* SamlFrontend (src/src/satosa/frontends/saml2.py): the SAML2 frontend of *)
(* the SATOSA proxy.  The model covers the endpoint registrar              *)
(* (register_endpoints), the two halves of an authentication exchange      *)
(* (handle_authn_request, handle_authn_response), the response builder     *)
(* (construct_authn_response) and the continuation token that links the    *)
(* halves (base64 of JSON).  The pysaml2 Server ("the engine") is an       *)
(* external collaborator: it is represented by a fixed fake engine whose   *)
(* answers are tabulated per request and per issuer.                       *)
(*                                                                         *)
(* Strings are TLA+ strings; a character is a string of length one.        *)
(***************************************************************************)
EXTENDS Integers, Sequences, FiniteSets, TLC

(***************************************************************************)
(* Bounds of the model.                                                    *)
(***************************************************************************)
\* longest provider list handed to register_endpoints
MaxProviders == 2
\* most continuation tokens kept in flight at once
MaxPending == 2
\* most characters drawn for the two fields of a continuation state
MaxStrLen == 3

(***************************************************************************)
(* Characters and bytes.                                                   *)
(***************************************************************************)
\* the printable ASCII characters in code point order: 32..95 and 97..126
\* (the grave accent, 96, cannot be written in a TLA+ string and is left out)
AsciiLow == " !\"#$%&'()*+,-./0123456789:;<=>?@ABCDEFGHIJKLMNOPQRSTUVWXYZ[\\]^_"

AsciiHigh == "abcdefghijklmnopqrstuvwxyz{|}~"

CharAt(s, i) == SubSeq(s, i, i)

\* 0 when c does not occur in s, else the first position of c in s
IndexOf(s, c) ==
  LET at == {i \in 1..Len(s) : CharAt(s, i) = c} IN
  IF at = {} THEN 0 ELSE CHOOSE i \in at : \A j \in at : i <= j

\* the concatenation of the strings f[lo], ..., f[hi]
RECURSIVE JoinRange(_, _, _)
JoinRange(f, lo, hi) ==
  IF lo > hi THEN ""
  ELSE IF lo = hi THEN f[lo]
  ELSE JoinRange(f, lo, (lo + hi) \div 2) \o JoinRange(f, (lo + hi) \div 2 + 1, hi)

Join(f) == JoinRange(f, 1, Len(f))

\* the characters the model draws from
Chars ==
  {CharAt(AsciiLow, i) : i \in 1..Len(AsciiLow)}
    \cup {CharAt(AsciiHigh, i) : i \in 1..Len(AsciiHigh)}
    \cup {"\t", "\n", "\f", "\r", "é"}

\* the code point of a character
CodePoint(c) ==
  CASE c = "\t" -> 9
    [] c = "\n" -> 10
    [] c = "\f" -> 12
    [] c = "\r" -> 13
    [] c = "é" -> 233
    [] OTHER -> IF IndexOf(AsciiLow, c) > 0 THEN 31 + IndexOf(AsciiLow, c)
                ELSE 96 + IndexOf(AsciiHigh, c)

OrdTable == [c \in Chars |-> CodePoint(c)]

Ord(c) == OrdTable[c]

\* the character of a code point
Chr(n) ==
  CASE n = 9 -> "\t"
    [] n = 10 -> "\n"
    [] n = 12 -> "\f"
    [] n = 13 -> "\r"
    [] n = 233 -> "é"
    [] OTHER -> IF n < 96 THEN CharAt(AsciiLow, n - 31) ELSE CharAt(AsciiHigh, n - 96)

ChrTable == [n \in {Ord(c) : c \in Chars} |-> Chr(n)]

HexDigits == "0123456789abcdef"

HexDigit(n) == CharAt(HexDigits, n + 1)

Hex4(n) ==
  HexDigit((n \div 4096) % 16) \o HexDigit((n \div 256) % 16)
    \o HexDigit((n \div 16) % 16) \o HexDigit(n % 16)

\* value of a hexadecimal digit (either case), -1 for anything else
HexValue(c) ==
  IF IndexOf(HexDigits, c) > 0 THEN IndexOf(HexDigits, c) - 1
  ELSE IF IndexOf("ABCDEF", c) > 0 THEN 9 + IndexOf("ABCDEF", c)
  ELSE -1

HexTable == [c \in Chars |-> HexValue(c)]

HexVal(c) == HexTable[c]

(***************************************************************************)
(* json.dumps / json.loads of a continuation state (a dict of two string   *)
(* fields), as used at saml2.py:148 and saml2.py:154.                      *)
(***************************************************************************)
\* JsonEscapeChar with the backslash written as it is
JsonEscapeCharKeepsBackslash(c) ==
  CASE c = "\"" -> "\\\""
    [] c = "\n" -> "\\n"
    [] c = "\r" -> "\\r"
    [] c = "\t" -> "\\t"
    [] c = "\f" -> "\\f"
    [] OTHER -> IF Ord(c) < 32 \/ Ord(c) > 126 THEN "\\u" \o Hex4(Ord(c)) ELSE c

\* the escape json.dumps writes for one character (ensure_ascii is on)
JsonEscapeChar(c) ==
  CASE c = "\"" -> "\\\""
    [] c = "\\" -> "\\\\"
    [] c = "\n" -> "\\n"
    [] c = "\r" -> "\\r"
    [] c = "\t" -> "\\t"
    [] c = "\f" -> "\\f"
    [] OTHER -> IF Ord(c) < 32 \/ Ord(c) > 126 THEN "\\u" \o Hex4(Ord(c)) ELSE c

JsonEscapeTable == [c \in Chars |-> JsonEscapeChar(c)]

JsonEscape(s) == Join([i \in 1..Len(s) |-> JsonEscapeTable[CharAt(s, i)]])

JsonString(s) == "\"" \o JsonEscape(s) \o "\""

\* json.dumps(request_state): keys in insertion order, separators ", " and ": "
JsonDumps(request_state) ==
  "{\"origin_authn_req\": " \o JsonString(request_state.origin_authn_req)
    \o ", \"relay_state\": " \o JsonString(request_state.relay_state) \o "}"

EmptyDict == [x \in {} |-> ""]

\* json.loads of an object whose values are strings, as a character
\* automaton.  mode: where the parser stands; esc: "" outside an escape,
\* "\\" after a backslash, "u" inside the four digits of \uXXXX (hexn digits
\* read, hexv their value); acc: the string being read; key: the pending
\* key; obj: the members read so far (a later key replaces an equal one)
JsonStart ==
  [mode |-> "start", esc |-> "", hexn |-> 0, hexv |-> 0, acc |-> "", iskey |-> FALSE,
   key |-> "", obj |-> EmptyDict]

JsonFail(st) == [st EXCEPT !.mode = "error"]

JsonPut(obj, k, v) == [x \in (DOMAIN obj) \cup {k} |-> IF x = k THEN v ELSE obj[x]]

\* one character inside a string literal
JsonStringStep(st, c) ==
  IF st.esc = "\\" THEN
    CASE c = "\"" -> [st EXCEPT !.esc = "", !.acc = @ \o "\""]
      [] c = "\\" -> [st EXCEPT !.esc = "", !.acc = @ \o "\\"]
      [] c = "/" -> [st EXCEPT !.esc = "", !.acc = @ \o "/"]
      [] c = "n" -> [st EXCEPT !.esc = "", !.acc = @ \o "\n"]
      [] c = "r" -> [st EXCEPT !.esc = "", !.acc = @ \o "\r"]
      [] c = "t" -> [st EXCEPT !.esc = "", !.acc = @ \o "\t"]
      [] c = "f" -> [st EXCEPT !.esc = "", !.acc = @ \o "\f"]
      [] c = "u" -> [st EXCEPT !.esc = "u", !.hexn = 0, !.hexv = 0]
      [] OTHER -> JsonFail(st)
  ELSE IF st.esc = "u" THEN
    IF HexVal(c) < 0 THEN JsonFail(st)
    ELSE IF st.hexn < 3 THEN [st EXCEPT !.hexn = @ + 1, !.hexv = @ * 16 + HexVal(c)]
    ELSE [st EXCEPT !.esc = "", !.hexn = 0, !.hexv = 0,
                    !.acc = @ \o Chr(st.hexv * 16 + HexVal(c))]
  ELSE IF c = "\\" THEN [st EXCEPT !.esc = "\\"]
  ELSE IF c = "\"" THEN
    IF st.iskey THEN [st EXCEPT !.mode = "colon", !.key = st.acc, !.acc = ""]
    ELSE [st EXCEPT !.mode = "comma", !.obj = JsonPut(@, st.key, st.acc), !.acc = ""]
  ELSE IF Ord(c) < 32 THEN JsonFail(st)
  ELSE [st EXCEPT !.acc = @ \o c]

JsonStep(st, c) ==
  IF st.mode = "error" THEN st
  ELSE IF st.mode = "string" THEN JsonStringStep(st, c)
  ELSE IF c \in {" ", "\t", "\n", "\r"} THEN st
  ELSE CASE st.mode = "start" ->
              IF c = "{" THEN [st EXCEPT !.mode = "first"] ELSE JsonFail(st)
         [] st.mode = "first" ->
              IF c = "}" THEN [st EXCEPT !.mode = "done"]
              ELSE IF c = "\"" THEN [st EXCEPT !.mode = "string", !.iskey = TRUE]
              ELSE JsonFail(st)
         [] st.mode = "key" ->
              IF c = "\"" THEN [st EXCEPT !.mode = "string", !.iskey = TRUE]
              ELSE JsonFail(st)
         [] st.mode = "colon" ->
              IF c = ":" THEN [st EXCEPT !.mode = "value"] ELSE JsonFail(st)
         [] st.mode = "value" ->
              IF c = "\"" THEN [st EXCEPT !.mode = "string", !.iskey = FALSE]
              ELSE JsonFail(st)
         [] st.mode = "comma" ->
              IF c = "," THEN [st EXCEPT !.mode = "key"]
              ELSE IF c = "}" THEN [st EXCEPT !.mode = "done"]
              ELSE JsonFail(st)
         [] OTHER -> JsonFail(st)

\* the scanner of json.loads: the characters t[lo..hi] taken left to right from state st
RECURSIVE JsonScan(_, _, _, _)
JsonScan(st, t, lo, hi) ==
  IF lo > hi THEN st
  ELSE IF lo = hi THEN JsonStep(st, CharAt(t, lo))
  ELSE LET mid == JsonScan(st, t, lo, (lo + hi) \div 2) IN
    \* the test evaluates the left half before the right half is entered
    IF mid = mid THEN JsonScan(mid, t, (lo + hi) \div 2 + 1, hi) ELSE st

\* [ok, obj]; ok is FALSE where json.loads raises
JsonLoads(t) ==
  LET st == JsonScan(JsonStart, t, 1, Len(t)) IN
  [ok |-> st.mode = "done", obj |-> st.obj]

(***************************************************************************)
(* base64.urlsafe_b64encode / urlsafe_b64decode over the UTF-8 bytes of    *)
(* the JSON text (json.dumps output is ASCII, one byte per character).     *)
(***************************************************************************)
B64Alphabet == "ABCDEFGHIJKLMNOPQRSTUVWXYZabcdefghijklmnopqrstuvwxyz0123456789-_"

B64Char(n) == CharAt(B64Alphabet, n + 1)

B64CharTable == [n \in 0..63 |-> B64Char(n)]

\* str.encode("UTF-8") of ASCII text: the sequence of code points
Utf8Encode(s) == [i \in 1..Len(s) |-> Ord(CharAt(s, i))]

\* bytes.decode("UTF-8") of ASCII bytes
Utf8Decode(b) == Join([i \in 1..Len(b) |-> ChrTable[b[i]]])

\* the four characters of the g-th group of three bytes ("=" pads a short
\* last group)
B64Group(b, g) ==
  LET i == 3 * g - 2
      n == Len(b) - i + 1
  IN IF n = 1 THEN
       B64CharTable[b[i] \div 4] \o B64CharTable[(b[i] % 4) * 16] \o "=="
     ELSE IF n = 2 THEN
       B64CharTable[b[i] \div 4] \o B64CharTable[(b[i] % 4) * 16 + (b[i + 1] \div 16)]
         \o B64CharTable[(b[i + 1] % 16) * 4] \o "="
     ELSE
       B64CharTable[b[i] \div 4] \o B64CharTable[(b[i] % 4) * 16 + (b[i + 1] \div 16)]
         \o B64CharTable[(b[i + 1] % 16) * 4 + (b[i + 2] \div 64)]
         \o B64CharTable[b[i + 2] % 64]

B64EncodeBytes(b) == Join([g \in 1..((Len(b) + 2) \div 3) |-> B64Group(b, g)])

\* the six-bit value of a character; -1 outside the alphabet.  The urlsafe
\* decoder maps "-" and "_" onto "+" and "/" and then decodes the standard
\* alphabet, so "+" and "/" are accepted as well.
B64Value(c) ==
  IF c = "+" THEN 62 ELSE IF c = "/" THEN 63
  ELSE IndexOf(B64Alphabet, c) - 1

B64ValueTable == [c \in Chars |-> B64Value(c)]

B64Val(c) == B64ValueTable[c]

\* binascii.a2b_base64 (lenient mode) as a character automaton: quad is
\* the position in the current group of four, pads the padding characters
\* seen in a row, left the bits carried over, done set by a closing pad
B64Start == [quad |-> 0, pads |-> 0, left |-> 0, bytes |-> <<>>, done |-> FALSE]

B64Step(st, c) ==
  IF st.done THEN st
  ELSE IF c = "=" THEN
    IF st.quad >= 2 /\ st.quad + st.pads + 1 >= 4
      THEN [st EXCEPT !.done = TRUE, !.quad = 0]
      ELSE [st EXCEPT !.pads = @ + 1]
  ELSE IF B64Val(c) < 0 THEN st
  ELSE LET v == B64Val(c) IN
    CASE st.quad = 0 -> [st EXCEPT !.quad = 1, !.pads = 0, !.left = v]
      [] st.quad = 1 -> [st EXCEPT !.quad = 2, !.pads = 0, !.left = v % 16,
                                   !.bytes = Append(@, st.left * 4 + (v \div 16))]
      [] st.quad = 2 -> [st EXCEPT !.quad = 3, !.pads = 0, !.left = v % 4,
                                   !.bytes = Append(@, st.left * 16 + (v \div 4))]
      [] OTHER -> [st EXCEPT !.quad = 0, !.pads = 0, !.left = 0,
                             !.bytes = Append(@, st.left * 64 + v)]

\* the scanner of a2b_base64: the characters t[lo..hi] taken left to right from state st
RECURSIVE B64Scan(_, _, _, _)
B64Scan(st, t, lo, hi) ==
  IF lo > hi THEN st
  ELSE IF lo = hi THEN B64Step(st, CharAt(t, lo))
  ELSE LET mid == B64Scan(st, t, lo, (lo + hi) \div 2) IN
    \* the test evaluates the left half before the right half is entered
    IF mid = mid THEN B64Scan(mid, t, (lo + hi) \div 2 + 1, hi) ELSE st

\* [ok, bytes]; ok is FALSE where urlsafe_b64decode raises binascii.Error
B64Decode(s) ==
  LET st == B64Scan(B64Start, s, 1, Len(s)) IN
  [ok |-> st.quad = 0, bytes |-> st.bytes]

(***************************************************************************)
(* The continuation codec.                                                 *)
(***************************************************************************)
\* saml2.py:148-149
EncodeState(request_state) == B64EncodeBytes(Utf8Encode(JsonDumps(request_state)))

\* DecodeState giving a state without relay_state an empty one
DecodeStateFillsRelayState(state) ==
  LET b == B64Decode(state)
      j == JsonLoads(Utf8Decode(b.bytes))
  IN IF ~b.ok \/ ~j.ok THEN [ok |-> FALSE, obj |-> EmptyDict]
     ELSE IF "relay_state" \in DOMAIN j.obj THEN j
     ELSE [ok |-> TRUE, obj |-> JsonPut(j.obj, "relay_state", "")]

\* saml2.py:154: [ok, obj]; ok is FALSE where the statement raises
DecodeState(state) ==
  LET b == B64Decode(state) IN
  IF ~b.ok THEN [ok |-> FALSE, obj |-> EmptyDict]
  ELSE JsonLoads(Utf8Decode(b.bytes))

(***************************************************************************)
(* satosa.service: the binding names of the routing layer.                 *)
(***************************************************************************)
BINDING_HTTP_REDIRECT == "urn:oasis:names:tc:SAML:2.0:bindings:HTTP-Redirect"

BINDING_HTTP_POST == "urn:oasis:names:tc:SAML:2.0:bindings:HTTP-POST"

\* service.BINDING_MAP: protocol binding -> binding kind of the routing layer
BINDING_MAP ==
  [b \in {BINDING_HTTP_REDIRECT, BINDING_HTTP_POST} |->
     IF b = BINDING_HTTP_REDIRECT THEN "redirect" ELSE "post"]

\* service.INV_BINDING_MAP: binding kind -> protocol binding
INV_BINDING_MAP ==
  [k \in {BINDING_MAP[b] : b \in DOMAIN BINDING_MAP} |->
     CHOOSE b \in DOMAIN BINDING_MAP : BINDING_MAP[b] = k]

(***************************************************************************)
(* The engine (saml2.server.Server), as a fake with tabulated answers.     *)
(* An engine call yields [raised, ...]: raised is "" on a normal return    *)
(* and the exception class otherwise.                                      *)
(***************************************************************************)
NoMessage == [id |-> "", issuer |-> ""]

\* what parse_authn_request finds in each transport-encoded request
ParseAuthnRequest(query, binding) ==
  CASE query = "qA" -> [raised |-> "", message |-> [id |-> "id1", issuer |-> "spA"]]
    [] query = "qB" -> [raised |-> "", message |-> [id |-> "id2", issuer |-> "spB"]]
    [] query = "qNoAcs" -> [raised |-> "", message |-> [id |-> "id3", issuer |-> "spNoAcs"]]
    [] query = "qNoMd" -> [raised |-> "", message |-> [id |-> "id4", issuer |-> "spNoMd"]]
    [] query = "qErr" -> [raised |-> "", message |-> [id |-> "id5", issuer |-> "spErr"]]
    [] query = "qRU" -> [raised |-> "", message |-> [id |-> "id6", issuer |-> "spRU"]]
    [] query = "qRB" -> [raised |-> "", message |-> [id |-> "id7", issuer |-> "spRB"]]
    [] query = "qUP" -> [raised |-> "UnknownPrincipal", message |-> NoMessage]
    [] query = "qUB" -> [raised |-> "UnsupportedBinding", message |-> NoMessage]
    [] OTHER -> [raised |-> "Exception", message |-> NoMessage]

NoArgs ==
  [keys |-> {}, binding |-> "", destination |-> "", in_response_to |-> "",
   sp_entity_id |-> ""]

\* pick_binding("assertion_consumer_service", entity_id=...): the reply
\* binding and destination the metadata gives for the requester
PickBinding(entity_id) ==
  CASE entity_id = "spA" ->
         [raised |-> "", binding |-> BINDING_HTTP_POST, destination |-> "https://spA/acs"]
    [] entity_id = "spB" ->
         [raised |-> "", binding |-> BINDING_HTTP_REDIRECT, destination |-> "https://spB/acs"]
    [] entity_id \in {"spRU", "spRB"} ->
         [raised |-> "", binding |-> BINDING_HTTP_POST, destination |-> "https://spR/acs"]
    [] entity_id = "spNoAcs" ->
         [raised |-> "UnsupportedBinding", binding |-> "", destination |-> ""]
    [] entity_id = "spNoMd" ->
         [raised |-> "UnknownPrincipal", binding |-> "", destination |-> ""]
    [] OTHER -> [raised |-> "Exception", binding |-> "", destination |-> ""]

\* response_args(message): the reply arguments for a request, or the
\* exception the engine raises for its issuer
ResponseArgs(message) ==
  CASE message.issuer \in {"spA", "spB"} ->
         [raised |-> "",
          args |-> [keys |-> {"binding", "destination", "in_response_to", "sp_entity_id"},
                    binding |-> PickBinding(message.issuer).binding,
                    destination |-> PickBinding(message.issuer).destination,
                    in_response_to |-> message.id,
                    sp_entity_id |-> message.issuer]]
    [] message.issuer = "spRB" -> [raised |-> "UnsupportedBinding", args |-> NoArgs]
    [] OTHER -> [raised |-> "UnknownPrincipal", args |-> NoArgs]

\* create_error_response(in_response_to, destination, exception)
CreateErrorResponse(in_response_to, destination, excp) ==
  "<Response InResponseTo=\"" \o in_response_to \o "\" Destination=\"" \o destination
    \o "\" Status=\"" \o excp \o "\"/>"

\* create_authn_response(identity, name_id=, authn=, sign_response=, **resp_args)
CreateAuthnResponse(identity, name_id, authn, sign_response, resp_args) ==
  "<Response InResponseTo=\"" \o resp_args.in_response_to \o "\" Destination=\""
    \o resp_args.destination \o "\" NameID=\"" \o name_id \o "\" Attributes=\""
    \o identity \o "\" AuthnContext=\"" \o authn \o "\" Signed=\""
    \o (IF sign_response THEN "true" ELSE "false") \o "\"/>"

\* the shapes of output apply_binding can hand back: with or without a
\* body, and with zero, one or two Location headers
EncodingShapes == {"form", "redirect", "form+location", "plain", "empty", "two-locations"}

\* apply_binding(binding, msg_str, destination, relay_state, response=True):
\* the dict {"data": ..., "headers": ...}; data is a list of body parts
ApplyBinding(binding, msg_str, destination, relay_state, shape) ==
  LET url == destination \o "?SAMLResponse=" \o msg_str \o "&RelayState=" \o relay_state
      form == "<form action=\"" \o destination \o "\" SAMLResponse=\"" \o msg_str
                \o "\" RelayState=\"" \o relay_state \o "\"/>"
      ctype == [name |-> "Content-type", value |-> "text/html"]
      loc == [name |-> "Location", value |-> url]
  IN [binding |-> binding,
      data |-> IF shape \in {"form", "form+location"} THEN <<form>> ELSE <<>>,
      headers |-> CASE shape = "form" -> <<ctype>>
                    [] shape = "redirect" -> <<loc>>
                    [] shape = "form+location" -> <<ctype, loc>>
                    [] shape = "plain" -> <<ctype>>
                    [] shape = "two-locations" ->
                         <<[name |-> "Location", value |-> "https://stale"], loc>>
                    [] OTHER -> <<>>]

\* AuthnRequest.to_string(): the serialized request
to_string(message) ==
  "<AuthnRequest ID=\"" \o message.id \o "\" Issuer=\"" \o message.issuer \o "\"/>"

\* authn_request_from_string(xml): [ok, message]; ok is FALSE where no
\* request can be read from the text
AuthnRequestFromString(xml) ==
  LET q == {i \in 1..Len(xml) : CharAt(xml, i) = "\""}
      nth(k) == CHOOSE i \in q : Cardinality({j \in q : j < i}) = k - 1
  IN IF Cardinality(q) # 4
          \/ Len(xml) < 18
          \/ SubSeq(xml, 1, 18) # "<AuthnRequest ID=\""
       THEN [ok |-> FALSE, message |-> NoMessage]
       ELSE [ok |-> TRUE,
             message |-> [id |-> SubSeq(xml, nth(1) + 1, nth(2) - 1),
                          issuer |-> SubSeq(xml, nth(3) + 1, nth(4) - 1)]]

(***************************************************************************)
(* The state of one SamlFrontend and of the calls made on it.              *)
(***************************************************************************)
VARIABLES
  endpoints,   \* self.endpoints = conf["endpoints"]: the endpoint declarations
  base,        \* self.base = conf["base"]
  config,      \* self.config["service"]["idp"]["endpoints"]; self.config is
               \* the object conf["idp_config"] itself (saml2.py:39)
  config0,     \* the value of config at construction (history)
  idp,         \* self.idp: the engine and the configuration it was built from
  url_map,     \* the routing table returned by the latest register_endpoints
  registered,  \* the provider list of the latest completed register_endpoints
  pending,     \* the continuation tokens handed out and held outside
  last,        \* the call that has just returned, until its result is taken
  cphase,      \* codec alone: "state", then "token", then "decoded"
  cstate,      \*   a continuation state,
  ctoken,      \*   the token it encodes to
  cdecoded     \*   and what the token decodes to

vars ==
  <<endpoints, base, config, config0, idp, url_map, registered, pending, last,
    cphase, cstate, ctoken, cdecoded>>

bridge == <<endpoints, base, config, config0, idp, url_map, registered>>

codec == <<cphase, cstate, ctoken, cdecoded>>

(***************************************************************************)
(* register_endpoints (saml2.py:213-246).                                  *)
(***************************************************************************)
SSO == "single_sign_on_service"

ProviderIds == {"idpA", "idpB"}

ProviderLists == UNION {[1..n -> ProviderIds] : n \in 0..MaxProviders}

\* the values register_endpoints is called with: None, a value that is no
\* list, and lists
ProviderInputs ==
  {[kind |-> k, items |-> <<>>] : k \in {"None", "str"}}
    \cup {[kind |-> "list", items |-> p] : p \in ProviderLists}

\* saml2.py:209-211: TRUE where _validate_providers raises TypeError
ValidateProvidersRaises(providers) == providers.kind # "list"

\* saml2.py:223-226: the entries appended for one (func, endpoint) item,
\* providers k..; the loop variable endpoint is overwritten by each
\* formatted path and so feeds the next provider's path
RECURSIVE ProviderEntries(_, _, _, _, _)
ProviderEntries(b, func, endpoint, providers, k) ==
  IF k > Len(providers) THEN <<>>
  ELSE LET formatted == b \o "/" \o providers[k] \o "/" \o endpoint IN
    <<[endpoint |-> formatted, func |-> func]>>
      \o ProviderEntries(b, func, formatted, providers, k + 1)

\* saml2.py:222-226: the entries appended for the items j.. of one category
RECURSIVE CategoryEntries(_, _, _, _)
CategoryEntries(b, funcs, providers, j) ==
  IF j > Len(funcs) THEN <<>>
  ELSE ProviderEntries(b, funcs[j].func, funcs[j].endpoint, providers, 1)
         \o CategoryEntries(b, funcs, providers, j + 1)

\* saml2.py:220-226: idp_endpoints once the categories 1..n have been gone
\* through; the list is created once, before the loop over the categories
RECURSIVE IdpEndpoints(_, _, _, _)
IdpEndpoints(decls, b, providers, n) ==
  IF n = 0 THEN <<>>
  ELSE IdpEndpoints(decls, b, providers, n - 1)
         \o CategoryEntries(b, decls[n].funcs, providers, 1)

\* WriteEndpoints adding the new entries to the ones already configured
WriteEndpointsExtends(conf, decls, b, providers) ==
  LET cats == {decls[n].category : n \in 1..Len(decls)} IN
  [c \in (DOMAIN conf) \cup cats |->
     IF c \in cats
       THEN (IF c \in DOMAIN conf THEN conf[c] ELSE <<>>)
              \o IdpEndpoints(decls, b, providers, Len(decls))
       ELSE conf[c]]

\* saml2.py:227: every declared category is assigned the one list object
\* idp_endpoints, so each of them ends up holding the final list
WriteEndpoints(conf, decls, b, providers) ==
  LET cats == {decls[n].category : n \in 1..Len(decls)} IN
  [c \in (DOMAIN conf) \cup cats |->
     IF c \in cats THEN IdpEndpoints(decls, b, providers, Len(decls)) ELSE conf[c]]

\* saml2.py:236-238: "{}|^{}".format(valid_providers, provider) for the
\* providers k.., starting from acc
RECURSIVE AlternateProviders(_, _, _)
AlternateProviders(acc, providers, k) ==
  IF k > Len(providers) THEN acc
  ELSE AlternateProviders(acc \o "|^" \o providers[k], providers, k + 1)

\* str.lstrip(c)
LStrip(s, c) ==
  LET keep == {i \in 1..Len(s) : CharAt(s, i) # c} IN
  IF keep = {} THEN ""
  ELSE SubSeq(s, CHOOSE i \in keep : \A j \in keep : i <= j, Len(s))

\* ValidProviders without the lstrip of the leading "|"
ValidProvidersUnstripped(providers) == AlternateProviders("", providers, 1)

\* saml2.py:236-239
ValidProviders(providers) == LStrip(AlternateProviders("", providers, 1), "|")

\* the first position of s holding one of the characters cs, 0 if none
FirstOf(s, cs) ==
  LET at == {i \in 1..Len(s) : CharAt(s, i) \in cs} IN
  IF at = {} THEN 0 ELSE CHOOSE i \in at : \A j \in at : i <= j

CutAt(s, i) == IF i = 0 THEN s ELSE SubSeq(s, 1, i - 1)

SchemeChars == "abcdefghijklmnopqrstuvwxyzABCDEFGHIJKLMNOPQRSTUVWXYZ0123456789+-."

\* urlparse(endp).path: the text left once the scheme, the network
\* location, the fragment, the query and the parameters are split off
UrlPath(endp) ==
  LET colon == IndexOf(endp, ":")
      scheme == /\ colon > 1
                /\ \A i \in 1..(colon - 1) : IndexOf(SchemeChars, CharAt(endp, i)) > 0
                /\ IndexOf(SchemeChars, CharAt(endp, 1)) <= 52
      r1 == IF scheme THEN SubSeq(endp, colon + 1, Len(endp)) ELSE endp
      r2 == IF Len(r1) >= 2 /\ SubSeq(r1, 1, 2) = "//"
              THEN LET rest == SubSeq(r1, 3, Len(r1))
                       cut == FirstOf(rest, {"/", "?", "#"})
                   IN IF cut = 0 THEN "" ELSE SubSeq(rest, cut, Len(rest))
              ELSE r1
      r3 == CutAt(r2, IndexOf(r2, "#"))
      r4 == CutAt(r3, IndexOf(r3, "?"))
      slashes == {i \in 1..Len(r4) : CharAt(r4, i) = "/"}
      lastSlash == IF slashes = {} THEN 0 ELSE CHOOSE i \in slashes : \A j \in slashes : j <= i
      semis == {i \in 1..Len(r4) : i > lastSlash /\ CharAt(r4, i) = ";"}
  IN IF semis = {} THEN r4
     ELSE SubSeq(r4, 1, (CHOOSE i \in semis : \A j \in semis : i <= j) - 1)

\* BindingRoutes without the trailing-segment route
BindingRoutesBareOnly(binding, endp, providers) ==
  <<[pattern |-> ValidProviders(providers) \o "/" \o UrlPath(endp) \o "$",
     handler |-> "handle_authn_request", binding |-> BINDING_MAP[binding]]>>

\* saml2.py:241-244: the two routes of one single-sign-on binding
BindingRoutes(binding, endp, providers) ==
  <<[pattern |-> ValidProviders(providers) \o "/" \o UrlPath(endp) \o "$",
     handler |-> "handle_authn_request", binding |-> BINDING_MAP[binding]],
    [pattern |-> ValidProviders(providers) \o "/" \o UrlPath(endp) \o "/(.*)$",
     handler |-> "handle_authn_request", binding |-> BINDING_MAP[binding]]>>

\* the declarations of the single-sign-on category
SsoFuncs(decls) ==
  decls[CHOOSE n \in 1..Len(decls) : decls[n].category = SSO].funcs

\* saml2.py:233-246: the routing table, for the items j.. of the category
RECURSIVE UrlMap(_, _, _)
UrlMap(funcs, providers, j) ==
  IF j > Len(funcs) THEN <<>>
  ELSE BindingRoutes(funcs[j].func, funcs[j].endpoint, providers)
         \o UrlMap(funcs, providers, j + 1)

(***************************************************************************)
(* Calls and their results.                                                *)
(***************************************************************************)
NoRequest == [keys |-> {}, SAMLRequest |-> "", RelayState |-> "", entityID |-> ""]

NoHttpArgs == [binding |-> "", data |-> <<>>, headers |-> <<>>]

\* an HTTP response object: Unauthorized, ServiceError, Response, Redirect
\* (saml2.httputil), or what the callback returned ("Callback")
NoResponse == [kind |-> "", message |-> <<>>, headers |-> <<>>]

NoApplied ==
  [called |-> FALSE, binding |-> "", msg_str |-> "", destination |-> "", relay_state |-> ""]

NoCreated ==
  [called |-> FALSE, identity |-> "", name_id |-> "", authn |-> "",
   sign_response |-> FALSE, resp_args |-> NoArgs]

\* the invocations of auth_req_callback_func in a call: how many, and for
\* the last one the dict and the state passed and the value it returned
NoCallback ==
  [called |-> FALSE, times |-> 0, resp_args |-> NoArgs, response |-> "",
   authn_req |-> NoMessage, state |-> "", returned |-> ""]

NoResult == [ava |-> "", name_id |-> "", auth_info |-> ""]

\* no call: the result of the previous call has been taken
Idle ==
  [op |-> "", providers |-> [kind |-> "None", items |-> <<>>],
   request |-> NoRequest, binding_in |-> "", state |-> "", internal_response |-> NoResult,
   raised |-> "", response |-> NoResponse, engine |-> <<>>,
   callback |-> NoCallback, applied |-> NoApplied, created |-> NoCreated,
   http_args |-> NoHttpArgs, internal_data |-> "", replay |-> FALSE,
   picked |-> ""]

\* a call that ended by raising
Raised(call, kind) == [call EXCEPT !.raised = kind]

(***************************************************************************)
(* verify_request and handle_authn_request (saml2.py:50-151).              *)
(***************************************************************************)
Unauthorized(text) == [kind |-> "Unauthorized", message |-> <<text>>, headers |-> <<>>]

ServiceError(text) == [kind |-> "ServiceError", message |-> <<text>>, headers |-> <<>>]

Response(data, headers) == [kind |-> "Response", message |-> data, headers |-> headers]

Redirect(location) == [kind |-> "Redirect", message |-> <<location>>, headers |-> <<>>]

\* the "response" entry of the dict verify_request returns: None, the
\* Unauthorized object, or the engine's SAML error response
NoneValue == [kind |-> "None", text |-> ""]

NoDict ==
  [keys |-> {}, resp_args |-> NoArgs, response |-> NoneValue, authn_req |-> NoMessage,
   req_args |-> {}]

\* saml2.py:92-102: the qualifiers set on the request; requests of the fake
\* engine carry none of them
ReqArgs(message) == {}

\* verify_request(idp, query, binding): [raised, engine, picked, dict] with
\* the engine operations invoked, in order, and the entity_id pick_binding
\* was called with
VerifyRequest(theIdp, query, binding) ==
  IF query = "" THEN
    [raised |-> "", engine |-> <<>>, picked |-> "",
     dict |-> [NoDict EXCEPT !.keys = {"response"},
                             !.response = [kind |-> "Unauthorized", text |-> "Unknown user"]]]
  ELSE IF ~theIdp.created THEN
    [raised |-> "AttributeError", engine |-> <<>>, picked |-> "", dict |-> NoDict]
  ELSE LET p == ParseAuthnRequest(query, binding) IN
    IF p.raised # "" THEN
      [raised |-> p.raised, engine |-> <<"parse_authn_request">>, picked |-> "",
       dict |-> NoDict]
    ELSE LET b == PickBinding(p.message.issuer) IN
      IF b.raised # "" THEN
        [raised |-> b.raised, engine |-> <<"parse_authn_request", "pick_binding">>,
         picked |-> p.message.issuer, dict |-> NoDict]
      ELSE LET a == ResponseArgs(p.message)
               keys == {"resp_args", "response", "authn_req", "req_args"}
           IN
        IF a.raised \in {"UnknownPrincipal", "UnsupportedBinding"} THEN
          [raised |-> "",
           engine |-> <<"parse_authn_request", "pick_binding", "response_args",
                        "create_error_response">>,
           picked |-> p.message.issuer,
           dict |-> [keys |-> keys, resp_args |-> NoArgs,
                     response |-> [kind |-> "SamlError",
                                   text |-> CreateErrorResponse(p.message.id,
                                                                b.destination, a.raised)],
                     authn_req |-> p.message, req_args |-> ReqArgs(p.message)]]
        ELSE IF a.raised # "" THEN
          [raised |-> a.raised,
           engine |-> <<"parse_authn_request", "pick_binding", "response_args">>,
           picked |-> p.message.issuer, dict |-> NoDict]
        ELSE
          [raised |-> "",
           engine |-> <<"parse_authn_request", "pick_binding", "response_args">>,
           picked |-> p.message.issuer,
           dict |-> [keys |-> keys, resp_args |-> a.args, response |-> NoneValue,
                     authn_req |-> p.message, req_args |-> ReqArgs(p.message)]]

\* Caught without any except clause
CaughtNothing(kind) == FALSE

\* Caught without the except clause for UnsupportedBinding
CaughtUnknownPrincipalOnly(kind) == kind = "UnknownPrincipal"

\* saml2.py:122-127: the exceptions of verify_request that are turned into
\* a ServiceError response
Caught(kind) == kind \in {"UnknownPrincipal", "UnsupportedBinding"}

\* the output the engine's transport encoding has for a binding
ShapeOf(binding) == IF binding = BINDING_HTTP_POST THEN "form" ELSE "redirect"

\* EncodedResponse looking for a Location header before looking at the body
EncodedResponseLocationFirst(http_args) ==
  LET locs == {i \in 1..Len(http_args.headers) : http_args.headers[i].name = "Location"} IN
  IF locs # {} THEN
    Redirect(http_args.headers[CHOOSE i \in locs : \A j \in locs : j <= i].value)
  ELSE IF http_args.data # <<>> THEN Response(http_args.data, http_args.headers)
  ELSE ServiceError("Don't know how to return response")

\* saml2.py:196-207: the HTTP response for a transport-encoding result; the
\* loop over the headers does not stop at the first Location header
EncodedResponse(http_args) ==
  LET locs == {i \in 1..Len(http_args.headers) : http_args.headers[i].name = "Location"} IN
  IF http_args.data # <<>> THEN Response(http_args.data, http_args.headers)
  ELSE IF locs # {} THEN
    Redirect(http_args.headers[CHOOSE i \in locs : \A j \in locs : j <= i].value)
  ELSE ServiceError("Don't know how to return response")

\* satosa.service.response(binding, http_args)
ServiceResponse(binding, http_args) ==
  LET locs == {i \in 1..Len(http_args.headers) : http_args.headers[i].name = "Location"} IN
  IF http_args.data # <<>> THEN Response(http_args.data, http_args.headers)
  ELSE IF locs # {} THEN
    Redirect(http_args.headers[CHOOSE i \in locs : \A j \in locs : j <= i].value)
  ELSE NoResponse

\* ContinuationToken leaving the relay state out of the token
ContinuationTokenDropsRelayState(authn_req, relay_state) ==
  EncodeState([origin_authn_req |-> to_string(authn_req), relay_state |-> ""])

\* saml2.py:145-149: the continuation token of a verified request
ContinuationToken(authn_req, relay_state) ==
  EncodeState([origin_authn_req |-> to_string(authn_req), relay_state |-> relay_state])

\* Dispatch wrapping what the callback returned in a content response
DispatchWrapsReturn(verified, d, request, cbret) ==
  LET noted == [verified EXCEPT
                  !.internal_data = IF "entityID" \in request.keys
                                      THEN request.entityID ELSE ""]
  IN
  IF "RelayState" \notin request.keys THEN Raised(noted, "KeyError")
  ELSE LET state == CHOOSE t \in {ContinuationToken(d.authn_req, request.RelayState)} : TRUE
       IN
    [noted EXCEPT
       !.state = state,
       !.callback = [called |-> TRUE, times |-> 1, resp_args |-> d.resp_args,
                     response |-> d.response.kind, authn_req |-> d.authn_req,
                     state |-> state, returned |-> cbret],
       !.response = [kind |-> "Response", message |-> <<cbret>>, headers |-> <<>>]]

\* Dispatch putting the entityID of the transport request in the place of
\* the issuer of the request the token carries
DispatchByEntityId(verified, d, request, cbret) ==
  LET noted == [verified EXCEPT
                  !.internal_data = IF "entityID" \in request.keys
                                      THEN request.entityID ELSE ""]
      routed == IF "entityID" \in request.keys
                  THEN [d.authn_req EXCEPT !.issuer = request.entityID]
                  ELSE d.authn_req
  IN
  IF "RelayState" \notin request.keys THEN Raised(noted, "KeyError")
  ELSE LET state == CHOOSE t \in {ContinuationToken(routed, request.RelayState)} : TRUE
       IN
    [noted EXCEPT
       !.state = state,
       !.callback = [called |-> TRUE, times |-> 1, resp_args |-> d.resp_args,
                     response |-> d.response.kind, authn_req |-> routed,
                     state |-> state, returned |-> cbret],
       !.response = [kind |-> "Callback", message |-> <<cbret>>, headers |-> <<>>]]

\* saml2.py:139-151: the verified request is handed to the callback, for the
\* call record verified and the dict d of verify_request
Dispatch(verified, d, request, cbret) ==
  LET noted == [verified EXCEPT
                  !.internal_data = IF "entityID" \in request.keys
                                      THEN request.entityID ELSE ""]
  IN
  IF "RelayState" \notin request.keys THEN Raised(noted, "KeyError")
  ELSE LET state == CHOOSE t \in {ContinuationToken(d.authn_req, request.RelayState)} : TRUE
       IN
    [noted EXCEPT
       !.state = state,
       !.callback = [called |-> TRUE, times |-> 1, resp_args |-> d.resp_args,
                     response |-> d.response.kind, authn_req |-> d.authn_req,
                     state |-> state, returned |-> cbret],
       !.response = [kind |-> "Callback", message |-> <<cbret>>, headers |-> <<>>]]

\* handle_authn_request(context, binding_in) with context.request = request,
\* the callback returning cbret: the call as it ends
AuthnRequestCall(theIdp, request, binding_in, cbret) ==
  LET call == [Idle EXCEPT !.op = "handle_authn_request", !.request = request,
                           !.binding_in = binding_in]
  IN
  IF binding_in \notin DOMAIN INV_BINDING_MAP THEN Raised(call, "KeyError")
  ELSE IF "SAMLRequest" \notin request.keys THEN Raised(call, "KeyError")
  ELSE LET v == VerifyRequest(theIdp, request.SAMLRequest, INV_BINDING_MAP[binding_in])
           verified == [call EXCEPT !.engine = v.engine, !.picked = v.picked]
           d == v.dict
       IN
    IF Caught(v.raised) THEN [verified EXCEPT !.response = ServiceError(v.raised)]
    ELSE IF v.raised # "" THEN Raised(verified, v.raised)
    ELSE IF "resp_args" \notin d.keys \/ "binding" \notin d.resp_args.keys THEN
      Raised(verified, "KeyError")
    ELSE IF d.response.kind # "None" THEN
      IF "destination" \notin d.resp_args.keys \/ "RelayState" \notin request.keys
        THEN Raised(verified, "KeyError")
      ELSE LET http_args == ApplyBinding(d.resp_args.binding, d.response.text,
                                         d.resp_args.destination, request.RelayState,
                                         ShapeOf(d.resp_args.binding))
           IN [verified EXCEPT
                 !.engine = Append(@, "apply_binding"),
                 !.applied = [called |-> TRUE, binding |-> d.resp_args.binding,
                              msg_str |-> d.response.text,
                              destination |-> d.resp_args.destination,
                              relay_state |-> request.RelayState],
                 !.http_args = http_args,
                 !.response = ServiceResponse(d.resp_args.binding, http_args)]
    ELSE Dispatch(verified, d, request, cbret)

(***************************************************************************)
(* handle_authn_response and construct_authn_response (saml2.py:153-207).  *)
(***************************************************************************)
\* construct_authn_response(idp, identity, name_id, authn, resp_args,
\* relay_state, sign_response), with the output shape the engine's
\* transport encoding takes: the call as it ends
ConstructAuthnResponse(call, identity, name_id, authn, resp_args, relay_state, sign_response, shape) ==
  LET _resp == CreateAuthnResponse(identity, name_id, authn, sign_response, resp_args)
      made == [call EXCEPT
                 !.engine = Append(@, "create_authn_response"),
                 !.created = [called |-> TRUE, identity |-> identity, name_id |-> name_id,
                              authn |-> authn, sign_response |-> sign_response,
                              resp_args |-> resp_args]]
  IN
  IF ~({"binding", "destination"} \subseteq resp_args.keys) THEN Raised(made, "KeyError")
  ELSE LET http_args == ApplyBinding(resp_args.binding, _resp, resp_args.destination,
                                     relay_state, shape)
       IN [made EXCEPT
             !.engine = Append(@, "apply_binding"),
             !.applied = [called |-> TRUE, binding |-> resp_args.binding,
                          msg_str |-> _resp, destination |-> resp_args.destination,
                          relay_state |-> relay_state],
             !.http_args = http_args,
             !.response = EncodedResponse(http_args)]

\* saml2.py:154-169: handle_authn_response from its first statement on, for
\* the call record call
Resume(theIdp, call, shape) ==
  LET request_state == DecodeState(call.state) IN
  IF ~request_state.ok THEN Raised(call, "ValueError")
  ELSE IF "origin_authn_req" \notin DOMAIN request_state.obj THEN Raised(call, "KeyError")
  ELSE LET origin_authn_req == AuthnRequestFromString(request_state.obj["origin_authn_req"])
       IN
    IF ~origin_authn_req.ok \/ ~theIdp.created THEN Raised(call, "AttributeError")
    ELSE LET a == ResponseArgs(origin_authn_req.message)
             asked == [call EXCEPT !.engine = <<"response_args">>]
         IN
      IF a.raised # "" THEN Raised(asked, a.raised)
      ELSE IF "relay_state" \notin DOMAIN request_state.obj THEN Raised(asked, "KeyError")
      ELSE ConstructAuthnResponse(asked, call.internal_response.ava,
                                  call.internal_response.name_id,
                                  call.internal_response.auth_info, a.args,
                                  request_state.obj["relay_state"], TRUE, shape)

\* AuthnResponseCall refusing a token for which a response was produced
AuthnResponseCallOnce(theIdp, internal_response, state, replay, shape) ==
  LET call == [Idle EXCEPT !.op = "handle_authn_response", !.state = state,
                           !.internal_response = internal_response, !.replay = replay]
  IN IF replay THEN Raised(call, "ValueError") ELSE Resume(theIdp, call, shape)

\* handle_authn_response(context, internal_response, state): the call as it
\* ends; replay tells whether a response was already produced for state
AuthnResponseCall(theIdp, internal_response, state, replay, shape) ==
  Resume(theIdp, [Idle EXCEPT !.op = "handle_authn_response", !.state = state,
                              !.internal_response = internal_response,
                              !.replay = replay], shape)

(***************************************************************************)
(* Actions.                                                                *)
(***************************************************************************)
\* register_endpoints(providers), saml2.py:213-246
RegisterEndpoints(providers) ==
  /\ last.op = ""
  /\ LET call == [Idle EXCEPT !.op = "register_endpoints", !.providers = providers,
                              !.replay = (registered = <<providers.items>>)]
     IN
     IF ValidateProvidersRaises(providers)
       THEN /\ last' = Raised(call, "TypeError")
            /\ UNCHANGED <<config, idp, url_map, registered>>
       ELSE /\ config' = WriteEndpoints(config, endpoints, base, providers.items)
            /\ idp' = [created |-> TRUE, endpoints |-> config']
            /\ url_map' = UrlMap(SsoFuncs(endpoints), providers.items, 1)
            /\ registered' = <<providers.items>>
            /\ last' = call
  /\ UNCHANGED <<endpoints, base, config0, pending, codec>>

\* handle_authn_request(context, binding_in): a request arrives; on the
\* Suspended outcome the token leaves with the callback and is held outside
HandleAuthnRequest(request, binding_in, cbret) ==
  /\ last.op = ""
  /\ \E call \in {AuthnRequestCall(idp, request, binding_in, cbret)} :
     LET held == {e \in pending : e.state = call.state}
     IN /\ last' = call
        /\ IF call.callback.called /\ held = {}
             THEN /\ Cardinality(pending) < MaxPending
                  /\ pending' = pending \cup
                       {[state |-> call.state, SAMLRequest |-> request.SAMLRequest,
                         RelayState |-> request.RelayState, used |-> FALSE]}
             ELSE pending' = pending
  /\ UNCHANGED <<bridge, codec>>

\* HandleAuthnResponse reading the continuation state from a place shared
\* by the exchanges in flight instead of from its own token
HandleAuthnResponseFromShared(e, internal_response, shape) ==
  /\ last.op = ""
  /\ e \in pending
  /\ \E o \in pending :
       \E call \in {AuthnResponseCall(idp, internal_response, o.state, e.used, shape)} :
         /\ last' = [call EXCEPT !.state = e.state]
         /\ pending' = IF call.raised = ""
                         THEN (pending \ {e}) \cup {[e EXCEPT !.used = TRUE]}
                         ELSE pending
  /\ UNCHANGED <<bridge, codec>>

\* handle_authn_response(context, internal_response, state) for a token
\* held outside; shape is the form of the engine's transport encoding
HandleAuthnResponse(e, internal_response, shape) ==
  /\ last.op = ""
  /\ e \in pending
  /\ \E call \in {AuthnResponseCall(idp, internal_response, e.state, e.used, shape)} :
       /\ last' = call
       /\ pending' = IF call.raised = ""
                       THEN (pending \ {e}) \cup {[e EXCEPT !.used = TRUE]}
                       ELSE pending
  /\ UNCHANGED <<bridge, codec>>

\* handle_authn_response(context, internal_response, state) with a token
\* the bridge never issued
HandleAuthnResponseForged(state, internal_response, shape) ==
  /\ last.op = ""
  /\ last' = AuthnResponseCall(idp, internal_response, state, FALSE, shape)
  /\ UNCHANGED <<bridge, pending, codec>>

\* the codec alone: saml2.py:148-149 applied to cstate
CodecEncode ==
  /\ cphase = "state"
  /\ cphase' = "token"
  /\ ctoken' = EncodeState(cstate)
  /\ UNCHANGED <<bridge, pending, last, cstate, cdecoded>>

\* the codec alone: saml2.py:154 applied to ctoken
CodecDecode ==
  /\ cphase = "token"
  /\ cphase' = "decoded"
  /\ cdecoded' = DecodeState(ctoken)
  /\ UNCHANGED <<bridge, pending, last, cstate, ctoken>>

\* the caller takes the result of the call that returned
Return ==
  /\ last.op # ""
  /\ last' = Idle
  /\ UNCHANGED <<bridge, pending, codec>>

(***************************************************************************)
(* Construction (saml2.py:26-43) and the specifications.                   *)
(***************************************************************************)
Decl(category, funcs) == [category |-> category, funcs |-> funcs]

Item(func, endpoint) == [func |-> func, endpoint |-> endpoint]

\* endpoint declarations a frontend is constructed with
EndpointDecls ==
  { <<Decl(SSO, <<Item(BINDING_HTTP_REDIRECT, "sso")>>)>>,
    <<Decl(SSO, <<Item(BINDING_HTTP_POST, "sso/post"),
                  Item(BINDING_HTTP_REDIRECT, "sso/redirect?v=1")>>)>>,
    <<Decl(SSO, <<Item(BINDING_HTTP_REDIRECT, "sso")>>),
      Decl("single_logout_service", <<Item(BINDING_HTTP_REDIRECT, "slo")>>)>>,
    <<Decl("single_logout_service", <<Item(BINDING_HTTP_POST, "slo/post"),
                                      Item(BINDING_HTTP_REDIRECT, "slo/redirect")>>),
      Decl(SSO, <<Item(BINDING_HTTP_POST, "sso/post"),
                  Item(BINDING_HTTP_REDIRECT, "sso/redirect")>>)>> }

Bases == {"/proxy", "https://proxy.example.com"}

\* conf["idp_config"]["service"]["idp"]["endpoints"] before registration
IdpConfigs ==
  { [c \in {SSO} |-> <<>>],
    [c \in {SSO, "attribute_service"} |->
       IF c = SSO THEN <<>>
       ELSE <<[endpoint |-> "https://proxy.example.com/attr", func |-> "urn:soap"]>>] }

\* __init__(auth_req_callback_func, conf)
Constructed(conf) ==
  /\ endpoints = conf.endpoints
  /\ base = conf.base
  /\ config = conf.idp_config
  /\ config0 = conf.idp_config
  /\ idp = [created |-> FALSE, endpoints |-> [c \in {} |-> <<>>]]
  /\ url_map = <<>>
  /\ registered = <<>>
  /\ pending = {}
  /\ last = Idle

CodecIdle ==
  /\ cphase = "state"
  /\ cstate = [origin_authn_req |-> "", relay_state |-> ""]
  /\ ctoken = ""
  /\ cdecoded = [ok |-> FALSE, obj |-> EmptyDict]

\* the registrar alone, over every configuration
InitRegistrar ==
  /\ \E e \in EndpointDecls, b \in Bases, c \in IdpConfigs :
       Constructed([endpoints |-> e, base |-> b, idp_config |-> c])
  /\ CodecIdle

NextRegistrar ==
  \/ \E providers \in ProviderInputs : RegisterEndpoints(providers)
  \/ Return

SpecRegistrar == InitRegistrar /\ [][NextRegistrar]_vars

(***************************************************************************)
(* The frontend in service: registration and the two request handlers.     *)
(***************************************************************************)
SamlRequests ==
  {"", "qA", "qB", "qNoAcs", "qNoMd", "qErr", "qRU", "qRB", "qUP", "qUB", "qBad"}

RelayStates == {"xyz", "a\"é"}

EntityIds == {"spZ", "spB"}

\* context.request: a dict that may lack any of its keys
Requests ==
  {[keys |-> ks,
    SAMLRequest |-> IF "SAMLRequest" \in ks THEN q ELSE "",
    RelayState |-> IF "RelayState" \in ks THEN r ELSE "",
    entityID |-> IF "entityID" \in ks THEN i ELSE ""] :
     ks \in SUBSET {"SAMLRequest", "RelayState", "entityID"},
     q \in SamlRequests, r \in RelayStates, i \in EntityIds}

BindingsIn == {"redirect", "post", "soap"}

\* what the authentication callback may return
CallbackReturns == {"redirect-to-backend", "login-page"}

\* the results of the external authentication
AuthnResults ==
  {[ava |-> "mail=alice@example.com", name_id |-> "alice", auth_info |-> "password"],
   [ava |-> "mail=bob@example.com", name_id |-> "bob", auth_info |-> "otp"]}

ServiceProviders == {[kind |-> "None", items |-> <<>>],
                     [kind |-> "list", items |-> <<"idpA">>],
                     [kind |-> "list", items |-> <<"idpA", "idpB">>]}

\* urlsafe_b64encode(text.encode("UTF-8")).decode("UTF-8") of an ASCII text
B64Text(text) == B64EncodeBytes(Utf8Encode(text))

\* tokens that are no base64 text
BadSyntaxTokens == {"abc", "e30"}

\* tokens that decode to a text that is no JSON document
NotJsonTokens == {"", "!!!", B64Text("{\"relay_state\": \"xyz\""), B64Text("xyz")}

\* tokens that decode to a JSON object with a field missing
MissingFieldTokens ==
  {B64Text("{}"),
   B64Text("{\"relay_state\": \"xyz\"}"),
   B64Text("{\"origin_authn_req\": "
             \o JsonString(to_string([id |-> "id1", issuer |-> "spA"])) \o "}")}

\* tokens handed to handle_authn_response that the bridge never issued
ForgedTokens == BadSyntaxTokens \cup NotJsonTokens \cup MissingFieldTokens

Init ==
  /\ Constructed([endpoints |-> <<Decl(SSO, <<Item(BINDING_HTTP_POST, "sso/post"),
                                              Item(BINDING_HTTP_REDIRECT, "sso/redirect")>>)>>,
                  base |-> "/proxy",
                  idp_config |-> [c \in {SSO} |-> <<>>]])
  /\ CodecIdle

Next ==
  \/ \E providers \in ServiceProviders : RegisterEndpoints(providers)
  \/ \E request \in Requests, binding_in \in BindingsIn, cbret \in CallbackReturns :
       HandleAuthnRequest(request, binding_in, cbret)
  \/ \E e \in pending, internal_response \in AuthnResults, shape \in EncodingShapes :
       HandleAuthnResponse(e, internal_response, shape)
  \/ \E state \in ForgedTokens, internal_response \in AuthnResults, shape \in EncodingShapes :
       HandleAuthnResponseForged(state, internal_response, shape)
  \/ Return

Spec == Init /\ [][Next]_vars

(***************************************************************************)
(* The continuation codec alone, over every short continuation state.      *)
(***************************************************************************)
\* the characters of the drawn strings: a plain one, the two json.dumps
\* escapes with a backslash, a control character and a non-ASCII one
CodecChars == {"a", "\"", "\\", "\n", "é"}

RECURSIVE StringsOfLen(_)
StringsOfLen(n) ==
  IF n = 0 THEN {""} ELSE {c \o t : c \in CodecChars, t \in StringsOfLen(n - 1)}

\* the continuation states whose two fields hold at most MaxStrLen characters
\* in all
ContinuationStates ==
  UNION {{[origin_authn_req |-> o, relay_state |-> r] :
            o \in StringsOfLen(n),
            r \in UNION {StringsOfLen(m) : m \in 0..(MaxStrLen - n)}} :
         n \in 0..MaxStrLen}

InitCodec ==
  /\ Constructed([endpoints |-> <<Decl(SSO, <<Item(BINDING_HTTP_REDIRECT, "sso")>>)>>,
                  base |-> "/proxy",
                  idp_config |-> [c \in {SSO} |-> <<>>]])
  /\ cphase = "state"
  /\ cstate \in ContinuationStates
  /\ ctoken = ""
  /\ cdecoded = [ok |-> FALSE, obj |-> EmptyDict]

NextCodec == CodecEncode \/ CodecDecode

SpecCodec == InitCodec /\ [][NextCodec]_vars

(***************************************************************************)
(* Properties of the request handler.                                      *)
(***************************************************************************)
\* the call that just returned is a handle_authn_request whose binding_in
\* the routing layer knows
RequestReturned ==
  /\ last.op = "handle_authn_request"
  /\ last.binding_in \in DOMAIN INV_BINDING_MAP

\* the call returned an HTTP response of kind k and did not raise
Answered(k) == last.raised = "" /\ last.response.kind = k

\* the request carried no SAMLRequest, or an empty one
PayloadMissing ==
  "SAMLRequest" \notin last.request.keys \/ last.request.SAMLRequest = ""

\* C1: a handle_authn_request call whose request has an absent or empty
\* SAMLRequest returns an Unauthorized response without raising, and invokes
\* neither an engine operation nor the authentication callback.
C1_MissingPayloadIsUnauthorized ==
  (RequestReturned /\ PayloadMissing)
    => /\ Answered("Unauthorized")
       /\ last.engine = <<>>
       /\ ~last.callback.called

\* the engine's response_args raised for the request of the call: the engine
\* built a ready-made SAML error response
ErrorResponseMade ==
  /\ RequestReturned
  /\ Len(last.engine) >= 4
  /\ last.engine[4] = "create_error_response"

\* C2: when response_args reports UnknownPrincipal or UnsupportedBinding,
\* handle_authn_request returns the transport-encoded SAML error response:
\* apply_binding is given the resolved destination and the request's
\* RelayState unchanged, the result is returned, and the callback is not
\* invoked.
C2_SamlErrorIsReturnedEncoded ==
  (ErrorResponseMade /\ "RelayState" \in last.request.keys)
    => /\ last.raised = ""
       /\ last.response.kind \in {"Response", "Redirect"}
       /\ last.applied.called
       /\ last.applied.binding = last.http_args.binding
       /\ last.applied.destination
            = PickBinding(ParseAuthnRequest(last.request.SAMLRequest, "").message.issuer).destination
       /\ last.applied.relay_state = last.request.RelayState
       /\ ~last.callback.called

\* the response arguments the engine computes for the request a token was
\* issued for
ArgsOfExchange(e) == ResponseArgs(ParseAuthnRequest(e.SAMLRequest, "").message).args

\* C3: a handle_authn_response call with a token issued by a suspended
\* request produces a response: it is transport-encoded with the relay state
\* of that request, with the binding and destination of the response
\* arguments the engine computes for that request, and the response is
\* created from the subject identifier and attributes of the result.
C3_ContinuationEndToEnd ==
  last.op = "handle_authn_response"
    => \A e \in pending :
         e.state = last.state
           => /\ last.raised = ""
              /\ last.applied.called
              /\ last.applied.relay_state = e.RelayState
              /\ last.applied.binding = ArgsOfExchange(e).binding
              /\ last.applied.destination = ArgsOfExchange(e).destination
              /\ last.created.called
              /\ last.created.resp_args = ArgsOfExchange(e)
              /\ last.created.name_id = last.internal_response.name_id
              /\ last.created.identity = last.internal_response.ava
              /\ last.applied.msg_str
                   = CreateAuthnResponse(last.internal_response.ava,
                                         last.internal_response.name_id,
                                         last.internal_response.auth_info, TRUE,
                                         ArgsOfExchange(e))

\* the scenario of C3: relay state "xyz", subject "alice", redirect to the
\* destination of the original issuer
C3_Witness ==
  /\ last.op = "handle_authn_response"
  /\ last.raised = ""
  /\ last.applied.relay_state = "xyz"
  /\ last.created.name_id = "alice"
  /\ last.applied.destination = "https://spB/acs"
  /\ last.response.kind = "Redirect"

\* C4: decoding the token that encodes a continuation state yields that
\* state, both fields unchanged.
C4_CodecRoundTrip ==
  cphase = "decoded"
    => /\ cdecoded.ok
       /\ DOMAIN cdecoded.obj = {"origin_authn_req", "relay_state"}
       /\ cdecoded.obj["origin_authn_req"] = cstate.origin_authn_req
       /\ cdecoded.obj["relay_state"] = cstate.relay_state

\* a state whose fields hold every kind of drawn character has been decoded
C4_Witness ==
  /\ cphase = "decoded"
  /\ cstate.origin_authn_req = "\"\\"
  /\ cstate.relay_state = "é"
  /\ cdecoded.ok

\* the engine raised UnknownPrincipal or UnsupportedBinding while parsing
\* the request of the call
ParseRefused ==
  /\ RequestReturned
  /\ ~PayloadMissing
  /\ idp.created
  /\ ParseAuthnRequest(last.request.SAMLRequest, INV_BINDING_MAP[last.binding_in]).raised
       \in {"UnknownPrincipal", "UnsupportedBinding"}

\* C5: when parse_authn_request raises UnsupportedBinding or
\* UnknownPrincipal, handle_authn_request returns a ServiceError response,
\* issues no continuation token and does not call the callback.
C5_ParseErrorIsServiceError ==
  ParseRefused
    => /\ Answered("ServiceError")
       /\ last.state = ""
       /\ ~last.callback.called
       /\ last.engine = <<"parse_authn_request">>

C5_Witness ==
  /\ ParseRefused
  /\ last.request.SAMLRequest = "qUB"
  /\ Answered("ServiceError")

(***************************************************************************)
(* Properties of the response builder.                                     *)
(***************************************************************************)
\* the values of the Location headers of a transport-encoding result
Locations(h) ==
  {h.headers[i].value : i \in {j \in 1..Len(h.headers) : h.headers[j].name = "Location"}}

\* construct_authn_response got a transport-encoding result from the engine
Encoded == last.op = "handle_authn_response" /\ last.applied.called

\* C6: construct_authn_response maps each transport-encoding result to one
\* outcome and never raises: a content response with the body and the engine
\* headers when there is a body (a Location header or not), else a redirect
\* to a Location header's value when there is one, else a ServiceError.
C6_EncodingOutcome ==
  Encoded
    => /\ last.raised = ""
       /\ last.http_args.data # <<>>
            => last.response = [kind |-> "Response", message |-> last.http_args.data,
                                headers |-> last.http_args.headers]
       /\ (last.http_args.data = <<>> /\ Locations(last.http_args) # {})
            => /\ last.response.kind = "Redirect"
               /\ last.response.message[1] \in Locations(last.http_args)
       /\ (last.http_args.data = <<>> /\ Locations(last.http_args) = {})
            => last.response.kind = "ServiceError"

\* a result with both a body and a Location header became a content response
C6_Witness ==
  /\ Encoded
  /\ last.http_args.data # <<>>
  /\ Locations(last.http_args) # {}
  /\ last.response.kind = "Response"

(***************************************************************************)
(* Properties of the registrar.                                            *)
(***************************************************************************)
\* register_endpoints has completed, last with the provider list P
RegisteredWith(P) == registered = <<P>>

DeclaredCategories == {endpoints[n].category : n \in 1..Len(endpoints)}

\* the number of (function, endpoint) items declared, all categories together
RECURSIVE DeclaredItems(_)
DeclaredItems(n) ==
  IF n = 0 THEN 0 ELSE DeclaredItems(n - 1) + Len(endpoints[n].funcs)

C8_RegistrationIdempotent ==
  [][(last'.op = "register_endpoints" /\ last'.raised = "" /\ last'.replay)
       => (url_map' = url_map /\ config' = config /\ idp' = idp)]_vars

\* a list of two providers has been registered twice in a row
C8_Witness ==
  /\ last.op = "register_endpoints"
  /\ last.raised = ""
  /\ last.replay
  /\ Len(last.providers.items) = 2
  /\ Len(endpoints) = 2

\* the provider alternation of a routing pattern: "^p" for each provider,
\* separated by "|"
RECURSIVE Alternation(_, _)
Alternation(P, k) ==
  IF k > Len(P) THEN ""
  ELSE "^" \o P[k] \o (IF k < Len(P) THEN "|" ELSE "") \o Alternation(P, k + 1)

RouteOf(pattern, binding) ==
  [pattern |-> pattern, handler |-> "handle_authn_request", binding |-> BINDING_MAP[binding]]

\* C9: for every single-sign-on binding declared with endpoint path e the
\* routing table holds the pattern "<providers>/e$" and the pattern
\* "<providers>/e/(.*)$", both bound to handle_authn_request with the
\* binding kind of that binding; for providers ["idpA"], the redirect binding
\* and endpoint "sso" the table is the two routes of idpA/sso.
C9_SsoRoutes ==
  \A P \in ProviderLists :
    RegisteredWith(P)
      => /\ \A j \in 1..Len(SsoFuncs(endpoints)) :
              LET item == SsoFuncs(endpoints)[j]
                  stem == Alternation(P, 1) \o "/" \o UrlPath(item.endpoint)
              IN /\ \E i \in 1..Len(url_map) : url_map[i] = RouteOf(stem \o "$", item.func)
                 /\ \E i \in 1..Len(url_map) : url_map[i] = RouteOf(stem \o "/(.*)$", item.func)
         /\ (P = <<"idpA">> /\ endpoints = <<Decl(SSO, <<Item(BINDING_HTTP_REDIRECT, "sso")>>)>>)
              => url_map = <<[pattern |-> "^idpA/sso$", handler |-> "handle_authn_request",
                              binding |-> "redirect"],
                             [pattern |-> "^idpA/sso/(.*)$", handler |-> "handle_authn_request",
                              binding |-> "redirect"]>>

\* the scenario of C9 has been registered
C9_Witness ==
  /\ RegisteredWith(<<"idpA">>)
  /\ endpoints = <<Decl(SSO, <<Item(BINDING_HTTP_REDIRECT, "sso")>>)>>
  /\ Len(url_map) = 2
  /\ url_map[2].binding = "redirect"

(***************************************************************************)
(* Properties of the continuation token across calls.                      *)
(***************************************************************************)
\* handle_authn_response returned a response of its own making
ResponseProduced ==
  /\ last.op = "handle_authn_response"
  /\ last.raised = ""
  /\ last.response.kind \in {"Response", "Redirect", "ServiceError"}

\* C10 as claimed: once handle_authn_response has produced a response for a
\* token, no later handle_authn_response call with that token produces a
\* response.
C10_TokenSingleUse == ~(ResponseProduced /\ last.replay)

\* C10 as amended: the bridge keeps no record of the tokens it has answered;
\* a handle_authn_response call with a token for which a response was
\* already produced produces a response again, transport-encoded with the
\* relay state and the destination of the token's exchange.
C10_TokenReplayAnswered ==
  (last.op = "handle_authn_response" /\ last.replay)
    => /\ ResponseProduced
       /\ last.response = EncodedResponse(last.http_args)
       /\ \A e \in pending :
            e.state = last.state
              => /\ e.used
                 /\ last.applied.relay_state = e.RelayState
                 /\ last.applied.destination = ArgsOfExchange(e).destination

\* a token has been answered a second time, with a redirect
C10_Witness ==
  /\ ResponseProduced
  /\ last.replay
  /\ last.response.kind = "Redirect"

(***************************************************************************)
(* Properties of the configuration across registrations.                   *)
(***************************************************************************)
\* C11: after any number of register_endpoints calls the endpoint entries of
\* the idp_config object given to the constructor equal their value at
\* construction. self.config is that object (saml2.py:39), so config is its
\* current value.
C11_CallerConfigUntouched == config = config0

\* register_endpoints was called with None, with a value that is no list,
\* or with an empty list
BadProviders(call) ==
  /\ call.op = "register_endpoints"
  /\ call.providers.kind # "list" \/ call.providers.items = <<>>

\* C12: a register_endpoints call with providers None, not a list, or empty
\* fails; no engine is instantiated, the engine configuration is unchanged
\* and no routing table comes back.
C12_BadProvidersRefused ==
  [][BadProviders(last')
       => /\ last'.raised # ""
          /\ idp' = idp
          /\ config' = config
          /\ url_map' = url_map]_vars

(***************************************************************************)
(* Properties of handle_authn_response on malformed tokens.                *)
(***************************************************************************)
\* handle_authn_response was called with a token that is no base64 text, or
\* decodes to no JSON document, or decodes to an object with a field missing
MalformedToken ==
  /\ last.op = "handle_authn_response"
  /\ last.state \in ForgedTokens

C14_DeclaredEndpointPerProvider ==
  \A P \in ProviderLists :
    RegisteredWith(P)
      => \A n \in 1..Len(endpoints) :
           \A j \in 1..Len(endpoints[n].funcs), k \in 1..Len(P) :
             \E i \in 1..Len(config[endpoints[n].category]) :
               config[endpoints[n].category][i] =
                 [endpoint |-> base \o "/" \o P[k] \o "/" \o endpoints[n].funcs[j].endpoint,
                  func |-> endpoints[n].funcs[j].func]

\* C15: with two or more categories declared, the list written for a
\* category holds the entries built from the items declared under that
\* category, provider by provider, and no others.
C15_CategoryListsSeparate ==
  \A P \in ProviderLists :
    (RegisteredWith(P) /\ Cardinality(DeclaredCategories) >= 2)
      => \A n \in 1..Len(endpoints) :
           config[endpoints[n].category] = CategoryEntries(base, endpoints[n].funcs, P, 1)

(***************************************************************************)
(* The routing patterns as regular expressions.  The patterns written at   *)
(* saml2.py:241-244 hold anchors, the alternation bar, one wildcard group   *)
(* and literal characters; the bar binds weakest, so it separates whole    *)
(* alternatives.                                                           *)
(***************************************************************************)
\* the alternatives of a pattern: the pieces between the "|" from lo on
RECURSIVE Alternatives(_, _)
Alternatives(pattern, lo) ==
  LET bars == {i \in lo..Len(pattern) : CharAt(pattern, i) = "|"} IN
  IF bars = {} THEN {SubSeq(pattern, lo, Len(pattern))}
  ELSE LET bar == CHOOSE i \in bars : \A j \in bars : i <= j IN
    {SubSeq(pattern, lo, bar - 1)} \cup Alternatives(pattern, bar + 1)

\* one alternative matched at the start of path: a leading "^" holds there,
\* each literal stands for itself ("." for any character but a newline),
\* "(.*)" takes any run without a newline, "$" holds at the end of path or
\* before a newline that ends it; an alternative without "$" matches any
\* path that starts with it
AlternativeMatches(alt, path) ==
  LET a1 == IF Len(alt) > 0 /\ CharAt(alt, 1) = "^" THEN SubSeq(alt, 2, Len(alt)) ELSE alt
      dollar == Len(a1) > 0 /\ CharAt(a1, Len(a1)) = "$"
      a2 == IF dollar THEN SubSeq(a1, 1, Len(a1) - 1) ELSE a1
      wild == Len(a2) >= 4 /\ SubSeq(a2, Len(a2) - 3, Len(a2)) = "(.*)"
      lit == IF wild THEN SubSeq(a2, 1, Len(a2) - 4) ELSE a2
      rest == SubSeq(path, Len(lit) + 1, Len(path))
      newlines == {i \in 1..Len(rest) : CharAt(rest, i) = "\n"}
  IN /\ Len(path) >= Len(lit)
     /\ \A i \in 1..Len(lit) :
          \/ CharAt(lit, i) = CharAt(path, i)
          \/ CharAt(lit, i) = "." /\ CharAt(path, i) # "\n"
     /\ dollar => IF wild THEN newlines \subseteq {Len(rest)}
                  ELSE rest \in {"", "\n"}

\* re.match(pattern, path) finds a match
Matches(pattern, path) ==
  \E alt \in Alternatives(pattern, 1) : AlternativeMatches(alt, path)

\* the request paths tried against the routing table
RequestPaths ==
  {"idpA/sso", "idpB/sso", "idpA/sso/x", "idpB/sso/x", "idpA/sso/post", "idpB/sso/post",
   "idpA/sso/redirect", "idpB/sso/redirect/x", "idpA", "idpB", "idpA/other", "idpB/other",
   "idpA/ssox", "idpB/slo", "idpC/sso", "sso", "/sso", ""}

\* the path is routed to handle_authn_request by some entry of url_map
Routed(path) == \E i \in 1..Len(url_map) : Matches(url_map[i].pattern, path)

(***************************************************************************)
(* Properties of the routing patterns.                                     *)
(***************************************************************************)
\* the declared single-sign-on paths
SsoPaths == {UrlPath(SsoFuncs(endpoints)[j].endpoint) : j \in 1..Len(SsoFuncs(endpoints))}

StartsWith(path, prefix) ==
  Len(path) >= Len(prefix) /\ SubSeq(path, 1, Len(prefix)) = prefix

\* path is provider p followed by a declared path, bare or with a trailing part
ProviderRoute(p, path) ==
  \E e \in SsoPaths : path = p \o "/" \o e \/ StartsWith(path, p \o "/" \o e \o "/")

\* C16: for a registered non-empty provider list P, a path matches a
\* single-sign-on pattern only if it is a provider of P followed by a declared
\* path, bare or with a trailing segment; a path that starts with a provider
\* of P and goes on otherwise matches no pattern; every provider of P
\* followed by a declared path matches.
C16_OnlyProviderRoutesMatch ==
  \A P \in ProviderLists :
    (RegisteredWith(P) /\ Len(P) > 0)
      => /\ \A path \in RequestPaths :
              Routed(path) => \E k \in 1..Len(P) : ProviderRoute(P[k], path)
         /\ \A k \in 1..Len(P), e \in SsoPaths : Routed(P[k] \o "/" \o e)

(***************************************************************************)
(* Properties of destination resolution.                                   *)
(***************************************************************************)
\* the request of the call that just returned, as the engine parses it
ParsedRequest ==
  ParseAuthnRequest(last.request.SAMLRequest, INV_BINDING_MAP[last.binding_in])

\* the request was parsed and pick_binding raised for its issuer
PickRefused ==
  /\ RequestReturned
  /\ ~PayloadMissing
  /\ idp.created
  /\ ParsedRequest.raised = ""
  /\ PickBinding(ParsedRequest.message.issuer).raised # ""

\* the exchange ended at pick_binding: no token, no callback, no transport
\* encoding
EndedAtPickBinding ==
  /\ last.engine = <<"parse_authn_request", "pick_binding">>
  /\ last.state = ""
  /\ ~last.callback.called
  /\ ~last.applied.called

\* C17 as claimed: when pick_binding raises, whatever the error, the error
\* propagates to the caller of handle_authn_request; no token is issued, the
\* callback is not invoked and no response is returned.
C17_PickFailurePropagates ==
  PickRefused
    => /\ last.raised = PickBinding(ParsedRequest.message.issuer).raised
       /\ last.response = NoResponse
       /\ EndedAtPickBinding

\* C17 as amended: when pick_binding raises, the exchange ends there: no
\* token is issued, the callback is not invoked and nothing is transport
\* encoded. UnknownPrincipal and UnsupportedBinding come back as a
\* ServiceError response naming the error; any other error propagates to the
\* caller of handle_authn_request.
C17_PickFailureEndsExchange ==
  PickRefused
    => LET kind == PickBinding(ParsedRequest.message.issuer).raised IN
       /\ EndedAtPickBinding
       /\ kind \in {"UnknownPrincipal", "UnsupportedBinding"}
            => /\ Answered("ServiceError")
               /\ last.response.message = <<kind>>
       /\ kind \notin {"UnknownPrincipal", "UnsupportedBinding"}
            => /\ last.raised = kind
               /\ last.response = NoResponse

\* the issuer has no assertion consumer service the engine supports
C17_Witness ==
  /\ PickRefused
  /\ last.request.SAMLRequest = "qNoAcs"
  /\ Answered("ServiceError")
  /\ last.response.message = <<"UnsupportedBinding">>

(***************************************************************************)
(* Properties of the out-of-band entityID.                                 *)
(***************************************************************************)
\* the requests that differ from r at most in the presence or the value of
\* entityID
EntityIdVariants(r) ==
  {r2 \in Requests :
     /\ r2.keys \ {"entityID"} = r.keys \ {"entityID"}
     /\ r2.SAMLRequest = r.SAMLRequest
     /\ r2.RelayState = r.RelayState}

\* C18: the entityID of the transport request does not influence reply
\* routing: the same call made with any request that differs only in
\* entityID calls pick_binding with the same entity identifier, the issuer of
\* the payload, computes the same response arguments and issues the same
\* token; the entityID is only recorded in the internal data of the context,
\* and a request without one is handled all the same.
C18_EntityIdNeverRoutes ==
  RequestReturned
    => /\ \A r2 \in EntityIdVariants(last.request) :
            LET other == AuthnRequestCall(idp, r2, last.binding_in, last.callback.returned) IN
            /\ other.picked = last.picked
            /\ other.engine = last.engine
            /\ other.raised = last.raised
            /\ other.callback = last.callback
            /\ other.state = last.state
            /\ other.applied = last.applied
            /\ other.response = last.response
       /\ last.picked # "" => last.picked = ParsedRequest.message.issuer
       /\ last.callback.called
            => last.internal_data = IF "entityID" \in last.request.keys
                                      THEN last.request.entityID ELSE ""

\* a request of issuer spA carrying the entityID of another service provider
\* was suspended
C18_Witness ==
  /\ RequestReturned
  /\ last.callback.called
  /\ "entityID" \in last.request.keys
  /\ last.request.entityID = "spB"
  /\ last.internal_data = "spB"
  /\ last.picked = "spA"
  /\ last.callback.resp_args.destination = "https://spA/acs"

(***************************************************************************)
(* Properties of exchanges in flight together.                             *)
(***************************************************************************)
\* C19: whatever the order in which the request halves and response halves
\* of several exchanges are run, neither handler changes the state the
\* exchanges share (the configuration, the endpoint declarations, the base,
\* the engine), and the response of an exchange carries the relay state of
\* its own token and answers the request of its own token.
C19_ExchangesIndependent ==
  [][last'.op \in {"handle_authn_request", "handle_authn_response"}
       => /\ UNCHANGED <<endpoints, base, config, idp, url_map, registered>>
          /\ last'.op = "handle_authn_response"
               => \A e \in pending :
                    e.state = last'.state
                      => /\ last'.applied.relay_state = e.RelayState
                         /\ last'.applied.destination = ArgsOfExchange(e).destination
                         /\ last'.created.resp_args.in_response_to
                              = ParseAuthnRequest(e.SAMLRequest, "").message.id
                         /\ last'.created.resp_args.sp_entity_id
                              = ParseAuthnRequest(e.SAMLRequest, "").message.issuer]_vars

\* a response was produced for one exchange while another exchange, with
\* another request and another relay state, was between its two halves
C19_Witness ==
  /\ last.op = "handle_authn_response"
  /\ last.raised = ""
  /\ \E e \in pending, o \in pending :
       /\ e.state = last.state
       /\ last.applied.relay_state = e.RelayState
       /\ ~o.used
       /\ o.RelayState # e.RelayState
       /\ o.SAMLRequest # e.SAMLRequest

(***************************************************************************)
(* Properties of the callback invocation.                                  *)
(***************************************************************************)
\* C20: a handle_authn_request call invokes the callback at most once, and
\* only when parse_authn_request, pick_binding and response_args have all
\* succeeded; the dict passed has response None and resp_args with a binding
\* and a destination, the token passed encodes the serialized request and the
\* RelayState of that call, and the call returns what the callback returned.
C20_CallbackOnVerifiedRequest ==
  last.op = "handle_authn_request"
    => /\ last.callback.times <= 1
       /\ last.callback.called <=> last.callback.times = 1
       /\ last.callback.called
            => /\ RequestReturned
               /\ last.engine = <<"parse_authn_request", "pick_binding", "response_args">>
               /\ ParsedRequest.raised = ""
               /\ PickBinding(ParsedRequest.message.issuer).raised = ""
               /\ ResponseArgs(ParsedRequest.message).raised = ""
               /\ last.callback.response = "None"
               /\ {"binding", "destination"} \subseteq last.callback.resp_args.keys
               /\ last.callback.resp_args = ResponseArgs(ParsedRequest.message).args
               /\ last.callback.authn_req = ParsedRequest.message
               /\ last.callback.state = last.state
               /\ DecodeState(last.state).ok
               /\ DOMAIN DecodeState(last.state).obj = {"origin_authn_req", "relay_state"}
               /\ DecodeState(last.state).obj["origin_authn_req"]
                    = to_string(ParsedRequest.message)
               /\ DecodeState(last.state).obj["relay_state"] = last.request.RelayState
               /\ last.raised = ""
               /\ last.response = [kind |-> "Callback",
                                   message |-> <<last.callback.returned>>,
                                   headers |-> <<>>]

\* the callback was invoked for a request whose relay state holds a quote
\* and a non-ASCII character, and its redirect came back from the handler
C20_Witness ==
  /\ last.op = "handle_authn_request"
  /\ last.callback.called
  /\ last.callback.returned = "redirect-to-backend"
  /\ last.request.RelayState = "a\"é"
  /\ last.response.message = <<"redirect-to-backend">>

====
